---- MODULE Spec2Model ----
(***************************************************************************)
(* Token lifecycle of the seller portal's Walmart integration:             *)
(* WalmartTokenService (src/src/services/walmartTokenService.ts) over the  *)
(* walmart_tokens table (the SQL migration), called concurrently.          *)
(* Spec is the service under concurrent callers, SpecExpiry applies        *)
(* isTokenExpiring to drawn inputs, SpecComponent is the service under     *)
(* the handlers of the WalmartConnection component, and SpecCipher applies *)
(* EncryptionService to drawn tokens, IVs and blobs.                       *)
(*                                                                         *)
(* Time is in milliseconds (Date.getTime()).  Tokens are numbers: the      *)
(* marketplace's k-th successful response carries access token             *)
(* AccessToken(k) and, when it sends one, refresh token RefreshToken(k).   *)
(* token_type, scope and created_at are carried by the code but never      *)
(* read by it; they are left out of the rows.                              *)
(***************************************************************************)
EXTENDS Integers, FiniteSets, Sequences, TLC

VARIABLES
  store,       \* the rows of table walmart_tokens
  now,         \* the wall clock, ms
  ticks,       \* how many times the clock has advanced
  configured,  \* WALMART_CLIENT_ID and WALMART_CLIENT_SECRET are both set
  users,       \* the signed-in users of this run
  calls,       \* per caller: the service call in progress and its result
  probe,       \* a single function applied to drawn inputs, and its result
  comp,        \* the state of the mounted WalmartConnection component
  sessionStorage  \* the browser's sessionStorage item walmart_oauth_state

vars == <<store, now, ticks, configured, users, calls, probe, comp, sessionStorage>>

----------------------------------------------------------------------------
(* Bounds and input sets *)

MaxTicks == 2

\* the runs explored: one user whose calls overlap, or two users whose calls
\* follow one another
Users == {"u1", "u2"}
Callers == {"c1", "c2"}
Deployments ==
  {[users |-> {"u1"}, callers |-> Callers], [users |-> Users, callers |-> {"c1"}]}

\* expires_in values (seconds) the marketplace may supply
ExpiresIns == {301, 3601}
\* clock advances, ms
TickSteps == {1000}

\* an absent (null / undefined) token or seller id
NULL == 0

AccessToken(k) == 100 + k
RefreshToken(k) == 200 + k
\* the seller ids a record may carry
SellerId(k) == 300 + k
\* OAuthState(k) is the string the k-th crypto.randomUUID() yields
OAuthState(k) == 400 + k
\* the state parameter of a callback URL: absent, or the string of the first
\* connectToWalmart (which sessionStorage may or may not hold)
StateParams == {NULL, OAuthState(1)}

\* x is a token as the marketplace returns it, in plaintext
IsPlaintextToken(x) ==
  \E k \in 1..x : x = AccessToken(k) \/ x = RefreshToken(k)

\* the token responses the marketplace may give as its k-th issuance
TokenResponses(k) ==
  {[access_token |-> AccessToken(k), refresh_token |-> rt, expires_in |-> e] :
     rt \in {NULL, RefreshToken(k)}, e \in ExpiresIns}

----------------------------------------------------------------------------
(* The table walmart_tokens *)

\* gen_random_uuid(): an id no row of the table has
gen_random_uuid(st) ==
  CHOOSE i \in 1..(Cardinality(st) + 1) : \A r \in st : r.id # i

\* trigger update_walmart_tokens_updated_at, BEFORE UPDATE, and the column's
\* DEFAULT now() on insert (the payload carries no updated_at)
update_updated_at_column(row, t) == [row EXCEPT !.updated_at = t]

\* the expiry trigger adding expires_in as milliseconds
calculate_expires_at_ms(row, t) ==
  [row EXCEPT !.expires_at = t + row.expires_in]

\* trigger calculate_walmart_token_expires_at, BEFORE INSERT OR UPDATE:
\* NEW.expires_at = now() + expires_in seconds, whatever NEW.expires_at was
calculate_expires_at(row, t) ==
  [row EXCEPT !.expires_at = t + row.expires_in * 1000]

\* the table without its UNIQUE (user_id) constraint
walmart_tokens_no_unique(st, row) == TRUE

\* UNIQUE (user_id): no other row has the row's user_id
walmart_tokens_user_unique(st, row) ==
  \A r \in st : r.id # row.id => r.user_id # row.user_id

\* supabase .upsert(payload) with no onConflict option: INSERT ... ON CONFLICT
\* (primary key) DO UPDATE.  The payload carries no id, so the row gets a new
\* one and the statement is an insert, subject to the table's constraints.
upsert(st, payload, t) ==
  LET new == calculate_expires_at(update_updated_at_column(
               [id |-> gen_random_uuid(st),
                user_id |-> payload.user_id,
                access_token |-> payload.access_token,
                refresh_token |-> payload.refresh_token,
                expires_in |-> payload.expires_in,
                expires_at |-> NULL,
                updated_at |-> NULL,
                seller_id |-> payload.seller_id], t), t)
      same == {r \in st : r.id = new.id}
  IN  IF ~walmart_tokens_user_unique(st \ same, new)
        THEN [error |-> "23505", data |-> {}, store |-> st]
        ELSE [error |-> "none", data |-> {new}, store |-> (st \ same) \cup {new}]

\* .select('*').eq('user_id', userId).single(): the row when exactly one
\* matches, error PGRST116 otherwise
selectSingle(st, userId) ==
  LET rows == {r \in st : r.user_id = userId}
  IN  IF Cardinality(rows) = 1
        THEN [error |-> "none", data |-> rows]
        ELSE [error |-> "PGRST116", data |-> {}]

\* a delete with no filter
deleteRows_all(st, userId) == {}

\* .delete().eq('user_id', userId)
deleteRows(st, userId) == {r \in st : r.user_id # userId}

----------------------------------------------------------------------------
(* WalmartTokenService *)

\* storeToken replacing the record by a delete followed by an insert
storeToken_deleteThenInsert(st, userId, tokenData, sellerId, t, dbOk) ==
  IF ~dbOk
    THEN [error |-> "db", data |-> {}, store |-> deleteRows(st, userId)]
    ELSE upsert(deleteRows(st, userId),
                [user_id |-> userId,
                 access_token |-> tokenData.access_token,
                 refresh_token |-> tokenData.refresh_token,
                 expires_in |-> tokenData.expires_in,
                 seller_id |-> sellerId], t)

\* storeToken leaving the seller id out of its payload
storeToken_noSeller(st, userId, tokenData, sellerId, t, dbOk) ==
  IF ~dbOk
    THEN [error |-> "db", data |-> {}, store |-> st]
    ELSE upsert(st, [user_id |-> userId,
                     access_token |-> tokenData.access_token,
                     refresh_token |-> tokenData.refresh_token,
                     expires_in |-> tokenData.expires_in,
                     seller_id |-> NULL], t)

\* storeToken(userId, tokenData, sellerId): the upsert, or the store's error.
\* dbOk = FALSE is a store request that fails (network, server).
storeToken(st, userId, tokenData, sellerId, t, dbOk) ==
  IF ~dbOk
    THEN [error |-> "db", data |-> {}, store |-> st]
    ELSE upsert(st, [user_id |-> userId,
                     access_token |-> tokenData.access_token,
                     refresh_token |-> tokenData.refresh_token,
                     expires_in |-> tokenData.expires_in,
                     seller_id |-> sellerId], t)

\* getStoredToken throwing every error of the select, PGRST116 included
getStoredToken_throwAll(st, userId, dbOk) ==
  IF ~dbOk
    THEN [error |-> "db", data |-> {}]
    ELSE LET res == selectSingle(st, userId)
         IN  IF res.error # "none"
               THEN [error |-> res.error, data |-> {}]
               ELSE [error |-> "none", data |-> res.data]

\* getStoredToken returning null on every error
getStoredToken_swallowAll(st, userId, dbOk) ==
  IF ~dbOk
    THEN [error |-> "none", data |-> {}]
    ELSE [error |-> "none", data |-> selectSingle(st, userId).data]

\* getStoredToken(userId): the row, null on PGRST116, any other error thrown
getStoredToken(st, userId, dbOk) ==
  IF ~dbOk
    THEN [error |-> "db", data |-> {}]
    ELSE LET res == selectSingle(st, userId)
         IN  IF res.error # "none" /\ res.error # "PGRST116"
               THEN [error |-> res.error, data |-> {}]
               ELSE [error |-> "none", data |-> res.data]

\* refreshAccessToken(refreshToken): the request it sends.  It is given the
\* refresh token alone; its headers are Content-Type, Accept, WM_SVC.NAME and
\* WM_QOS.CORRELATION_ID, none of them a partner (seller) identifier.
refreshAccessToken_request(refreshToken) ==
  [refresh_token |-> refreshToken, partner |-> NULL]

DefaultBufferMinutes == 5

\* isTokenExpiring with the comparison turned round
isTokenExpiring_inverted(token, bufferMinutes, t) ==
  t + bufferMinutes * 60 * 1000 <= token.expires_at

isTokenExpiring_ge(token, bufferMinutes, t) ==
  LET bufferTime == bufferMinutes * 60 * 1000
  IN  (token.expires_at - t) >= bufferTime

\* isTokenExpiring with a strict comparison
isTokenExpiring_lt(token, bufferMinutes, t) ==
  LET bufferTime == bufferMinutes * 60 * 1000
  IN  (token.expires_at - t) < bufferTime

\* isTokenExpiring(token, bufferMinutes = 5) at time t (new Date())
isTokenExpiring(token, bufferMinutes, t) ==
  LET bufferTime == bufferMinutes * 60 * 1000
  IN  (token.expires_at - t) <= bufferTime

\* getValidAccessToken refreshing without looking for a refresh token
getValidAccessToken_decide_noCheck(storedToken, t) ==
  IF storedToken = {} THEN "NotConnected"
  ELSE LET tok == CHOOSE r \in storedToken : TRUE
       IN  IF ~isTokenExpiring(tok, DefaultBufferMinutes, t) THEN "return"
           ELSE "refresh"

\* what getValidAccessToken does with the stored token it has read
getValidAccessToken_decide(storedToken, t) ==
  IF storedToken = {} THEN "NotConnected"
  ELSE LET tok == CHOOSE r \in storedToken : TRUE
       IN  IF ~isTokenExpiring(tok, DefaultBufferMinutes, t) THEN "return"
           ELSE IF tok.refresh_token # NULL THEN "refresh"
           ELSE "NoRefreshToken"

\* a catch that throws on what it caught
getValidAccessToken_rethrow(error) == error

\* the catch around refreshAccessToken + storeToken: whatever was thrown is
\* replaced by 'Token expired and refresh failed'
getValidAccessToken_catch(error) == "RefreshFailed"

\* getConnectionStatus reporting a connection when it finds no record
getConnectionStatus_noRecord(st, userId, t, dbOk) ==
  LET res == getStoredToken(st, userId, dbOk)
  IN  IF res.error # "none"
        THEN [threw |-> FALSE, isConnected |-> FALSE, token |-> {},
              isExpiring |-> FALSE, needsRefresh |-> FALSE]
      ELSE IF res.data = {}
        THEN [threw |-> FALSE, isConnected |-> TRUE, token |-> {},
              isExpiring |-> FALSE, needsRefresh |-> FALSE]
      ELSE [threw |-> FALSE, isConnected |-> TRUE, token |-> res.data,
            isExpiring |-> isTokenExpiring(CHOOSE r \in res.data : TRUE, 60, t),
            needsRefresh |-> isTokenExpiring(CHOOSE r \in res.data : TRUE, 5, t)]

\* getConnectionStatus with the two buffers exchanged
getConnectionStatus_swapped(st, userId, t, dbOk) ==
  LET res == getStoredToken(st, userId, dbOk)
  IN  IF res.error # "none" \/ res.data = {}
        THEN [threw |-> FALSE, isConnected |-> FALSE, token |-> {},
              isExpiring |-> FALSE, needsRefresh |-> FALSE]
      ELSE [threw |-> FALSE, isConnected |-> TRUE, token |-> res.data,
            isExpiring |-> isTokenExpiring(CHOOSE r \in res.data : TRUE, 5, t),
            needsRefresh |-> isTokenExpiring(CHOOSE r \in res.data : TRUE, 60, t)]

\* getConnectionStatus without its try/catch
getConnectionStatus_nocatch(st, userId, t, dbOk) ==
  LET res == getStoredToken(st, userId, dbOk)
  IN  IF res.error # "none"
        THEN [threw |-> TRUE, isConnected |-> FALSE, token |-> {},
              isExpiring |-> FALSE, needsRefresh |-> FALSE]
      ELSE IF res.data = {}
        THEN [threw |-> FALSE, isConnected |-> FALSE, token |-> {},
              isExpiring |-> FALSE, needsRefresh |-> FALSE]
      ELSE [threw |-> FALSE, isConnected |-> TRUE, token |-> res.data,
            isExpiring |-> isTokenExpiring(CHOOSE r \in res.data : TRUE, 60, t),
            needsRefresh |-> isTokenExpiring(CHOOSE r \in res.data : TRUE, 5, t)]

\* getConnectionStatus(userId) at time t: the status object returned (absent
\* fields are FALSE / {}); threw says an exception left the function
getConnectionStatus(st, userId, t, dbOk) ==
  LET res == getStoredToken(st, userId, dbOk)
  IN  IF res.error # "none"
        THEN [threw |-> FALSE, isConnected |-> FALSE, token |-> {},
              isExpiring |-> FALSE, needsRefresh |-> FALSE]
      ELSE IF res.data = {}
        THEN [threw |-> FALSE, isConnected |-> FALSE, token |-> {},
              isExpiring |-> FALSE, needsRefresh |-> FALSE]
      ELSE [threw |-> FALSE, isConnected |-> TRUE, token |-> res.data,
            isExpiring |-> isTokenExpiring(CHOOSE r \in res.data : TRUE, 60, t),
            needsRefresh |-> isTokenExpiring(CHOOSE r \in res.data : TRUE, 5, t)]

----------------------------------------------------------------------------
(* Calls *)

IdleCall ==
  [kind |-> "idle", user |-> "-", pc |-> "idle",
   stored |-> {},         \* what getStoredToken returned
   readAt |-> 0,          \* the clock when it returned
   sent |-> NULL,         \* the refresh token carried by the refresh request
   partner |-> NULL,      \* the seller id carried by it in a partner header
   captured |-> {},       \* the component's token in the handler's closure
   state |-> NULL,        \* handleAuthorizationCallback's state argument
   silent |-> FALSE,      \* refreshToken's silent argument
   resp |-> {},           \* the marketplace's token response
   outcome |-> "none",    \* "ok" or the error the call failed with
   err |-> "none",        \* the underlying error: config, mkt, db, 23505
   token |-> NULL,        \* the access token returned
   isRefreshed |-> FALSE,
   isConnected |-> FALSE, \* the status getConnectionStatus returned
   isExpiring |-> FALSE,
   needsRefresh |-> FALSE,
   reqs |-> 0,            \* requests sent to the marketplace token endpoint
   writes |-> 0]          \* store writes that took effect

Fail(call, outcome, err) ==
  [call EXCEPT !.pc = "done", !.outcome = outcome, !.err = err]

\* the tokens held anywhere: in the table or by a call
TokensOfRows(rows) == UNION {{r.access_token, r.refresh_token} : r \in rows}

LiveTokens ==
  TokensOfRows(store) \cup TokensOfRows(comp.token) \cup
  UNION {TokensOfRows(calls[c].stored) \cup TokensOfRows(calls[c].resp) \cup
         TokensOfRows(calls[c].captured) \cup
         {calls[c].token, calls[c].sent} : c \in DOMAIN calls}

\* the marketplace issues tokens nobody holds: the least unused issuance number
NextIssue ==
  CHOOSE k \in 1..(Cardinality(LiveTokens) + 1) :
    /\ {AccessToken(k), RefreshToken(k)} \cap LiveTokens = {}
    /\ \A j \in 1..(k - 1) : {AccessToken(j), RefreshToken(j)} \cap LiveTokens # {}

\* the table when the portal starts: empty, or holding the record of an
\* earlier session, written at time 0, whose seller_id has been filled in
InitialStores ==
  {{},
   {[id |-> 1, user_id |-> "u1",
     access_token |-> AccessToken(1), refresh_token |-> RefreshToken(1),
     expires_in |-> 301, expires_at |-> 301 * 1000, updated_at |-> 0,
     seller_id |-> SellerId(1)]}}

NoProbe == [op |-> "none"]

\* the component's useState initial values; error "none" is the empty string
InitialComp ==
  [token |-> {}, loading |-> FALSE, connecting |-> FALSE, error |-> "none",
   isConnected |-> FALSE, isExpiring |-> FALSE, needsRefresh |-> FALSE]

Init ==
  /\ store \in InitialStores
  /\ probe = NoProbe
  /\ comp = InitialComp
  /\ sessionStorage = NULL
  /\ now = 0
  /\ ticks = 0
  /\ configured \in BOOLEAN
  /\ \E d \in Deployments :
       /\ users = d.users
       /\ calls = [c \in d.callers |-> IdleCall]

\* a finished call's result is taken by its caller before anything else
\* happens: taking it changes nothing but the call's own record
NoResultPending == \A c \in DOMAIN calls : calls[c].pc # "done"

Ready(c) == NoResultPending /\ calls[c].pc = "idle"

Tick(d) ==
  /\ NoResultPending
  /\ ticks < MaxTicks
  /\ now' = now + d
  /\ ticks' = ticks + 1
  /\ UNCHANGED <<store, configured, users, calls, probe, comp, sessionStorage>>

\* the caller takes the result of a finished call
Return(c) ==
  /\ calls[c].pc = "done"
  /\ calls' = [calls EXCEPT ![c] = IdleCall]
  /\ UNCHANGED <<store, now, ticks, configured, users, probe, comp, sessionStorage>>

TheRow(rows) == CHOOSE r \in rows : TRUE

(* getValidAccessToken(userId) *)

\* the call starts: getStoredToken's select is on its way
GetValidAccessToken_Call(c, u) ==
  /\ Ready(c)
  /\ calls' = [calls EXCEPT ![c] = [IdleCall EXCEPT !.kind = "gvat", !.user = u, !.pc = "read"]]
  /\ UNCHANGED <<store, now, ticks, configured, users, probe, comp, sessionStorage>>

\* getStoredToken resolves; the null check, the expiry check and the refresh
\* token check follow in the same turn, and so does refreshAccessToken up to
\* its fetch (or its configuration error, which the catch replaces)
GetValidAccessToken_Read(c) ==
  /\ NoResultPending
  /\ calls[c].kind = "gvat" /\ calls[c].pc = "read"
  /\ \E dbOk \in BOOLEAN :
       LET call == calls[c]
           res == getStoredToken(store, call.user, dbOk)
           base == [call EXCEPT !.stored = res.data, !.readAt = now]
           d == getValidAccessToken_decide(res.data, now)
       IN  calls' = [calls EXCEPT ![c] =
             IF res.error # "none" THEN Fail(call, "StoreError", res.error)
             ELSE IF d = "NotConnected" THEN Fail(base, "NotConnected", "none")
             ELSE IF d = "return"
               THEN [base EXCEPT !.pc = "done", !.outcome = "ok",
                                 !.token = TheRow(res.data).access_token,
                                 !.isRefreshed = FALSE]
             ELSE IF d = "NoRefreshToken" THEN Fail(base, "NoRefreshToken", "none")
             ELSE IF ~configured
               THEN Fail(base, getValidAccessToken_catch("ConfigError"), "config")
             ELSE LET req == refreshAccessToken_request(
                               TheRow(res.data).refresh_token)
                  IN  [base EXCEPT !.pc = "refresh",
                                   !.sent = req.refresh_token,
                                   !.partner = req.partner,
                                   !.reqs = @ + 1]]
  /\ UNCHANGED <<store, now, ticks, configured, users, probe, comp, sessionStorage>>

\* the token endpoint answers the refresh request: a token response, which
\* goes on to storeToken, or a non-success status, thrown and caught
GetValidAccessToken_Refresh(c) ==
  /\ NoResultPending
  /\ calls[c].kind = "gvat" /\ calls[c].pc = "refresh"
  /\ \/ /\ \E r \in TokenResponses(NextIssue) :
             calls' = [calls EXCEPT ![c] = [@ EXCEPT !.pc = "store", !.resp = {r}]]
     \/ /\ calls' = [calls EXCEPT ![c] =
                       Fail(@, getValidAccessToken_catch("WalmartApiError"), "mkt")]
  /\ UNCHANGED <<store, now, ticks, configured, users, probe, comp, sessionStorage>>

\* storeToken(userId, newTokenData, storedToken.seller_id) resolves
GetValidAccessToken_Store(c) ==
  /\ NoResultPending
  /\ calls[c].kind = "gvat" /\ calls[c].pc = "store"
  /\ \E dbOk \in BOOLEAN :
       LET call == calls[c]
           res == storeToken(store, call.user, TheRow(call.resp),
                             TheRow(call.stored).seller_id, now, dbOk)
       IN  /\ store' = res.store
           /\ calls' = [calls EXCEPT ![c] =
                IF res.error # "none"
                  THEN Fail(call, getValidAccessToken_catch(res.error), res.error)
                  ELSE [call EXCEPT !.pc = "done", !.outcome = "ok",
                                    !.token = TheRow(res.data).access_token,
                                    !.isRefreshed = TRUE,
                                    !.writes = @ + 1]]
  /\ UNCHANGED <<now, ticks, configured, users, probe, comp, sessionStorage>>

(* Authorization: getAccessToken(code, redirectUri), then                  *)
(* storeToken(user.id, tokenData), as handleAuthorizationCallback does     *)

\* getAccessToken starts: the configuration check, then the fetch
Authorize_Call(c, u) ==
  /\ Ready(c)
  /\ calls' = [calls EXCEPT ![c] =
       LET call == [IdleCall EXCEPT !.kind = "auth", !.user = u]
       IN  IF ~configured THEN Fail(call, "ConfigError", "config")
           ELSE [call EXCEPT !.pc = "exchange", !.reqs = 1]]
  /\ UNCHANGED <<store, now, ticks, configured, users, probe, comp, sessionStorage>>

\* getAccessToken sending the request again after a non-success status
Authorize_Exchange_retry(c) ==
  /\ NoResultPending
  /\ calls[c].kind = "auth" /\ calls[c].pc = "exchange"
  /\ \/ /\ \E r \in TokenResponses(NextIssue) :
             calls' = [calls EXCEPT ![c] = [@ EXCEPT !.pc = "store", !.resp = {r}]]
     \/ /\ calls' = [calls EXCEPT ![c] = [@ EXCEPT !.reqs = @ + 1]]
  /\ UNCHANGED <<store, now, ticks, configured, users, probe, comp, sessionStorage>>

\* the token endpoint answers the authorization-code exchange
Authorize_Exchange(c) ==
  /\ NoResultPending
  /\ calls[c].kind = "auth" /\ calls[c].pc = "exchange"
  /\ \/ /\ \E r \in TokenResponses(NextIssue) :
             calls' = [calls EXCEPT ![c] = [@ EXCEPT !.pc = "store", !.resp = {r}]]
     \/ /\ calls' = [calls EXCEPT ![c] = Fail(@, "WalmartApiError", "mkt")]
  /\ UNCHANGED <<store, now, ticks, configured, users, probe, comp, sessionStorage>>

\* storeToken(user.id, tokenData) resolves (no sellerId is passed)
Authorize_Store(c) ==
  /\ NoResultPending
  /\ calls[c].kind = "auth" /\ calls[c].pc = "store"
  /\ \E dbOk \in BOOLEAN :
       LET call == calls[c]
           res == storeToken(store, call.user, TheRow(call.resp), NULL, now, dbOk)
       IN  /\ store' = res.store
           /\ calls' = [calls EXCEPT ![c] =
                IF res.error # "none"
                  THEN Fail(call, "StoreError", res.error)
                  ELSE [call EXCEPT !.pc = "done", !.outcome = "ok",
                                    !.token = TheRow(res.data).access_token,
                                    !.writes = @ + 1]]
  /\ UNCHANGED <<now, ticks, configured, users, probe, comp, sessionStorage>>

(* deleteToken(userId) *)

DeleteToken(c, u) ==
  /\ Ready(c)
  /\ \E dbOk \in BOOLEAN :
       LET call == [IdleCall EXCEPT !.kind = "delete", !.user = u]
       IN  IF dbOk
             THEN /\ store' = deleteRows(store, u)
                  /\ calls' = [calls EXCEPT ![c] =
                       [call EXCEPT !.pc = "done", !.outcome = "ok",
                                    !.writes = IF store' # store THEN 1 ELSE 0]]
             ELSE /\ store' = store
                  /\ calls' = [calls EXCEPT ![c] = Fail(call, "StoreError", "db")]
  /\ UNCHANGED <<now, ticks, configured, users, probe, comp, sessionStorage>>

(* getStoredToken(userId) *)

GetStoredToken(c, u) ==
  /\ Ready(c)
  /\ \E dbOk \in BOOLEAN :
       LET res == getStoredToken(store, u, dbOk)
       IN  calls' = [calls EXCEPT ![c] =
             [IdleCall EXCEPT !.kind = "get", !.user = u, !.pc = "done",
                              !.stored = res.data, !.readAt = now,
                              !.outcome = IF res.error # "none" THEN "StoreError"
                                          ELSE "ok",
                              !.err = res.error]]
  /\ UNCHANGED <<store, now, ticks, configured, users, probe, comp, sessionStorage>>

(* getConnectionStatus(userId) *)

GetConnectionStatus(c, u) ==
  /\ Ready(c)
  /\ \E dbOk \in BOOLEAN :
       LET status == getConnectionStatus(store, u, now, dbOk)
       IN  calls' = [calls EXCEPT ![c] =
             [IdleCall EXCEPT !.kind = "status", !.user = u, !.pc = "done",
                              !.stored = status.token, !.readAt = now,
                              !.outcome = IF status.threw THEN "StoreError" ELSE "ok",
                              !.err = IF dbOk THEN "none" ELSE "db",
                              !.isConnected = status.isConnected,
                              !.isExpiring = status.isExpiring,
                              !.needsRefresh = status.needsRefresh]]
  /\ UNCHANGED <<store, now, ticks, configured, users, probe, comp, sessionStorage>>

Next ==
  \/ \E d \in TickSteps : Tick(d)
  \/ \E c \in DOMAIN calls : Return(c)
  \/ \E c \in DOMAIN calls, u \in users : GetValidAccessToken_Call(c, u)
  \/ \E c \in DOMAIN calls : GetValidAccessToken_Read(c)
  \/ \E c \in DOMAIN calls : GetValidAccessToken_Refresh(c)
  \/ \E c \in DOMAIN calls : GetValidAccessToken_Store(c)
  \/ \E c \in DOMAIN calls, u \in users : Authorize_Call(c, u)
  \/ \E c \in DOMAIN calls : Authorize_Exchange(c)
  \/ \E c \in DOMAIN calls : Authorize_Store(c)
  \/ \E c \in DOMAIN calls, u \in users : DeleteToken(c, u)
  \/ \E c \in DOMAIN calls, u \in users : GetStoredToken(c, u)
  \/ \E c \in DOMAIN calls, u \in users : GetConnectionStatus(c, u)

Spec == Init /\ [][Next]_vars

----------------------------------------------------------------------------
(* isTokenExpiring applied to drawn records, buffers and clocks *)

\* the clock values, ms
ExpiryNows == {0, 1000, 3600 * 1000}
\* expires_at - now, ms: in the past, around the 5 minute and the 60 minute
\* buffers, and beyond them
ExpiryOffsets ==
  {0 - 3600 * 1000, 0 - 1000, 0 - 1, 0, 1,
   299999, 300000, 300001, 301000,
   3599999, 3600000, 3600001, 3601000, 7200000}
\* the buffers the code passes: the default and getConnectionStatus's 60 and 5
BufferMinutes == {DefaultBufferMinutes, 60}

InitExpiry ==
  /\ store = {}
  /\ ticks = 0
  /\ configured = TRUE
  /\ users = {}
  /\ calls = [c \in {} |-> IdleCall]
  /\ comp = InitialComp
  /\ sessionStorage = NULL
  /\ now \in ExpiryNows
  /\ probe \in {[op |-> "isTokenExpiring", pc |-> "input",
                  expires_at |-> now + o, bufferMinutes |-> b, result |-> FALSE] :
                   o \in ExpiryOffsets, b \in BufferMinutes}

IsTokenExpiring_Apply ==
  /\ probe.op = "isTokenExpiring" /\ probe.pc = "input"
  /\ probe' = [probe EXCEPT
       !.pc = "done",
       !.result = isTokenExpiring([expires_at |-> probe.expires_at],
                                  probe.bufferMinutes, now)]
  /\ UNCHANGED <<store, now, ticks, configured, users, calls, comp, sessionStorage>>

NextExpiry == IsTokenExpiring_Apply

SpecExpiry == InitExpiry /\ [][NextExpiry]_vars

----------------------------------------------------------------------------
(* The WalmartConnection component of one signed-in user.  A handler runs  *)
(* with the state of the render that created it: refreshToken reads the    *)
(* token its closure captured, not the one set since.                      *)

\* refreshToken's catch: the message is shown unless the refresh is silent
refreshToken_catch(call, cmp, err) ==
  [call |-> [call EXCEPT !.pc = "done", !.outcome = "ok", !.err = err],
   comp |-> IF call.silent THEN cmp
            ELSE [cmp EXCEPT !.error = err, !.loading = FALSE]]

\* refreshToken(silent) up to the fetch of refreshAccessToken
refreshToken_enter(call, cmp) ==
  IF call.captured = {} \/ TheRow(call.captured).refresh_token = NULL
    THEN [call |-> [call EXCEPT !.pc = "done", !.outcome = "ok"], comp |-> cmp]
    ELSE LET shown == IF call.silent THEN cmp
                      ELSE [cmp EXCEPT !.loading = TRUE, !.error = "none"]
             req == refreshAccessToken_request(TheRow(call.captured).refresh_token)
         IN  IF ~configured
               THEN refreshToken_catch(call, shown, "config")
               ELSE [call |-> [call EXCEPT !.pc = "refresh",
                                           !.sent = req.refresh_token,
                                           !.partner = req.partner,
                                           !.reqs = @ + 1],
                     comp |-> shown]

\* checkConnectionStatus up to getConnectionStatus's select being sent
checkConnectionStatus_start(u) ==
  [IdleCall EXCEPT !.kind = "check", !.user = u, !.pc = "select",
                   !.captured = comp.token, !.silent = TRUE]

\* the effect runs (on mount, and again when user changes) with no code in
\* the URL: checkConnectionStatus starts
CheckConnectionStatus_Call(c, u) ==
  /\ Ready(c)
  /\ calls' = [calls EXCEPT ![c] = checkConnectionStatus_start(u)]
  /\ UNCHANGED <<store, now, ticks, configured, users, probe, comp, sessionStorage>>

\* the table answers getStoredToken's select: the answer is on its way back
CheckConnectionStatus_Read(c) ==
  /\ NoResultPending
  /\ calls[c].kind = "check" /\ calls[c].pc = "select"
  /\ \E dbOk \in BOOLEAN :
       LET res == getStoredToken(store, calls[c].user, dbOk)
       IN  calls' = [calls EXCEPT ![c] =
             [@ EXCEPT !.pc = "status", !.stored = res.data, !.err = res.error]]
  /\ UNCHANGED <<store, now, ticks, configured, users, probe, comp, sessionStorage>>

\* getConnectionStatus resolves on the answer: the status and its token are
\* set, and a record needing refresh with a refresh token goes on to
\* refreshToken(true)
CheckConnectionStatus_Status(c) ==
  /\ NoResultPending
  /\ calls[c].kind = "check" /\ calls[c].pc = "status"
  /\ LET call == calls[c]
         status == getConnectionStatus(call.stored, call.user, now, call.err = "none")
         shown == [comp EXCEPT !.isConnected = status.isConnected,
                               !.isExpiring = status.isExpiring,
                               !.needsRefresh = status.needsRefresh,
                               !.token = status.token]
         base == [call EXCEPT !.stored = status.token, !.readAt = now,
                              !.isConnected = status.isConnected,
                              !.isExpiring = status.isExpiring,
                              !.needsRefresh = status.needsRefresh]
     IN  IF status.threw
           THEN /\ calls' = [calls EXCEPT ![c] =
                     [base EXCEPT !.pc = "done", !.outcome = "ok"]]
                /\ comp' = [comp EXCEPT !.isConnected = FALSE,
                                        !.isExpiring = FALSE,
                                        !.needsRefresh = FALSE]
         ELSE IF /\ status.needsRefresh
                 /\ status.token # {}
                 /\ TheRow(status.token).refresh_token # NULL
           THEN LET r == refreshToken_enter(base, shown)
                IN  calls' = [calls EXCEPT ![c] = r.call] /\ comp' = r.comp
         ELSE /\ calls' = [calls EXCEPT ![c] =
                   [base EXCEPT !.pc = "done", !.outcome = "ok"]]
              /\ comp' = shown
  /\ UNCHANGED <<store, now, ticks, configured, users, probe, sessionStorage>>

\* the Refresh Token button (shown when connected with a refresh token,
\* disabled while loading): refreshToken(false)
RefreshToken_Call(c, u) ==
  /\ Ready(c)
  /\ comp.isConnected /\ ~comp.loading
  /\ comp.token # {} /\ TheRow(comp.token).refresh_token # NULL
  /\ LET r == refreshToken_enter(
                [IdleCall EXCEPT !.kind = "refresh", !.user = u,
                                 !.captured = comp.token, !.silent = FALSE],
                comp)
     IN  calls' = [calls EXCEPT ![c] = r.call] /\ comp' = r.comp
  /\ UNCHANGED <<store, now, ticks, configured, users, probe, sessionStorage>>

\* the token endpoint answers refreshToken's refresh request
RefreshToken_Refresh(c) ==
  /\ NoResultPending
  /\ calls[c].kind \in {"check", "refresh"} /\ calls[c].pc = "refresh"
  /\ \/ /\ \E r \in TokenResponses(NextIssue) :
             calls' = [calls EXCEPT ![c] = [@ EXCEPT !.pc = "store", !.resp = {r}]]
        /\ comp' = comp
     \/ LET r == refreshToken_catch(calls[c], comp, "mkt")
        IN  calls' = [calls EXCEPT ![c] = r.call] /\ comp' = r.comp
  /\ UNCHANGED <<store, now, ticks, configured, users, probe, sessionStorage>>

\* storeToken(user.id, newTokenData, token.seller_id) resolves
RefreshToken_Store(c) ==
  /\ NoResultPending
  /\ calls[c].kind \in {"check", "refresh"} /\ calls[c].pc = "store"
  /\ \E dbOk \in BOOLEAN :
       LET call == calls[c]
           res == storeToken(store, call.user, TheRow(call.resp),
                             TheRow(call.captured).seller_id, now, dbOk)
           r == refreshToken_catch(call, comp, res.error)
       IN  /\ store' = res.store
           /\ IF res.error # "none"
                THEN calls' = [calls EXCEPT ![c] = r.call] /\ comp' = r.comp
                ELSE /\ calls' = [calls EXCEPT ![c] =
                          [call EXCEPT !.pc = "done", !.outcome = "ok",
                                       !.token = TheRow(res.data).access_token,
                                       !.isRefreshed = TRUE,
                                       !.writes = @ + 1]]
                     /\ comp' = [comp EXCEPT
                          !.token = res.data,
                          !.isConnected = TRUE,
                          !.isExpiring = FALSE,
                          !.needsRefresh = FALSE,
                          !.error = IF call.silent THEN @ ELSE "none",
                          !.loading = IF call.silent THEN @ ELSE FALSE]
  /\ UNCHANGED <<now, ticks, configured, users, probe, sessionStorage>>

\* handleAuthorizationCallback(code, state) up to the exchange request:
\* getAccessToken checks the configuration and sends it
handleAuthorizationCallback_start(u, state) ==
  LET call == [IdleCall EXCEPT !.kind = "callback", !.user = u, !.state = state]
  IN  IF ~configured
        THEN [call |-> [call EXCEPT !.pc = "done", !.outcome = "ok", !.err = "config"],
              comp |-> [comp EXCEPT !.error = "config", !.connecting = FALSE]]
        ELSE [call |-> [call EXCEPT !.pc = "exchange", !.reqs = 1],
              comp |-> [comp EXCEPT !.error = "none", !.connecting = TRUE]]

\* the effect runs with a code in the URL: checkConnectionStatus starts, and
\* handleAuthorizationCallback beside it
HandleAuthorizationCallback_Call(c, d, u, state) ==
  /\ Ready(c) /\ Ready(d)
  /\ LET r == handleAuthorizationCallback_start(u, state)
     IN  /\ calls' = [calls EXCEPT ![c] = checkConnectionStatus_start(u),
                                   ![d] = r.call]
         /\ comp' = r.comp
  /\ UNCHANGED <<store, now, ticks, configured, users, probe, sessionStorage>>

HandleAuthorizationCallback_Exchange(c) ==
  /\ NoResultPending
  /\ calls[c].kind = "callback" /\ calls[c].pc = "exchange"
  /\ \/ /\ \E r \in TokenResponses(NextIssue) :
             calls' = [calls EXCEPT ![c] = [@ EXCEPT !.pc = "store", !.resp = {r}]]
        /\ comp' = comp
     \/ /\ calls' = [calls EXCEPT ![c] =
               [@ EXCEPT !.pc = "done", !.outcome = "ok", !.err = "mkt"]]
        /\ comp' = [comp EXCEPT !.error = "mkt", !.connecting = FALSE]
  /\ UNCHANGED <<store, now, ticks, configured, users, probe, sessionStorage>>

\* storeToken(user.id, tokenData) resolves
HandleAuthorizationCallback_Store(c) ==
  /\ NoResultPending
  /\ calls[c].kind = "callback" /\ calls[c].pc = "store"
  /\ \E dbOk \in BOOLEAN :
       LET call == calls[c]
           res == storeToken(store, call.user, TheRow(call.resp), NULL, now, dbOk)
       IN  /\ store' = res.store
           /\ IF res.error # "none"
                THEN /\ calls' = [calls EXCEPT ![c] =
                          [call EXCEPT !.pc = "done", !.outcome = "ok",
                                       !.err = res.error]]
                     /\ comp' = [comp EXCEPT !.error = res.error,
                                             !.connecting = FALSE]
                ELSE /\ calls' = [calls EXCEPT ![c] =
                          [call EXCEPT !.pc = "done", !.outcome = "ok",
                                       !.token = TheRow(res.data).access_token,
                                       !.writes = @ + 1]]
                     /\ comp' = [comp EXCEPT !.token = res.data,
                                             !.isConnected = TRUE,
                                             !.isExpiring = FALSE,
                                             !.needsRefresh = FALSE,
                                             !.connecting = FALSE]
  /\ UNCHANGED <<now, ticks, configured, users, probe, sessionStorage>>

\* the Disconnect button (shown when connected): deleteToken, then the
\* state is cleared; a deleteToken that throws leaves the state as it is
DisconnectWalmart(c, u) ==
  /\ Ready(c)
  /\ comp.isConnected
  /\ \E dbOk \in BOOLEAN :
       LET call == [IdleCall EXCEPT !.kind = "disconnect", !.user = u]
       IN  IF dbOk
             THEN /\ store' = deleteRows(store, u)
                  /\ calls' = [calls EXCEPT ![c] =
                       [call EXCEPT !.pc = "done", !.outcome = "ok",
                                    !.writes = IF store' # store THEN 1 ELSE 0]]
                  /\ comp' = [comp EXCEPT !.token = {},
                                          !.isConnected = FALSE,
                                          !.isExpiring = FALSE,
                                          !.needsRefresh = FALSE]
             ELSE /\ store' = store
                  /\ calls' = [calls EXCEPT ![c] = Fail(call, "StoreError", "db")]
                  /\ comp' = comp
  /\ UNCHANGED <<now, ticks, configured, users, probe, sessionStorage>>

\* the Connect to Walmart button (shown when not connected, disabled while
\* connecting): the state is saved in sessionStorage and the page is left for
\* the marketplace's; the component mounts anew when the user comes back.  A
\* missing client id fails generateAuthorizationUrl before anything is saved.
ConnectToWalmart(u) ==
  /\ \A c \in DOMAIN calls : Ready(c)
  /\ ~comp.isConnected /\ ~comp.connecting
  /\ IF ~configured
       THEN comp' = [comp EXCEPT !.error = "config"] /\ sessionStorage' = sessionStorage
       ELSE comp' = InitialComp /\ sessionStorage' = OAuthState(1)
  /\ UNCHANGED <<store, now, ticks, configured, users, calls, probe>>

\* the runs explored: one asynchronous handler or service call at a time,
\* in slot c1 (beside it the callback the effect starts together with
\* checkConnectionStatus), and the Disconnect button clicked at any moment
AsyncSlots == {"c1"}

InitComponent ==
  /\ store \in InitialStores
  /\ probe = NoProbe
  /\ comp = InitialComp
  /\ sessionStorage = NULL
  /\ now = 0
  /\ ticks = 0
  /\ configured \in BOOLEAN
  /\ users = {"u1"}
  /\ calls = [c \in Callers |-> IdleCall]

NextComponent ==
  \/ \E d \in TickSteps : Tick(d)
  \/ \E c \in DOMAIN calls : Return(c)
  \/ \E c \in AsyncSlots, u \in users : CheckConnectionStatus_Call(c, u)
  \/ \E c \in DOMAIN calls : CheckConnectionStatus_Read(c)
  \/ \E c \in DOMAIN calls : CheckConnectionStatus_Status(c)
  \/ \E c \in AsyncSlots, u \in users : RefreshToken_Call(c, u)
  \/ \E c \in DOMAIN calls : RefreshToken_Refresh(c)
  \/ \E c \in DOMAIN calls : RefreshToken_Store(c)
  \/ \E c \in AsyncSlots, d \in Callers \ AsyncSlots, u \in users, state \in StateParams :
       HandleAuthorizationCallback_Call(c, d, u, state)
  \/ \E c \in DOMAIN calls : HandleAuthorizationCallback_Exchange(c)
  \/ \E c \in DOMAIN calls : HandleAuthorizationCallback_Store(c)
  \/ \E c \in DOMAIN calls, u \in users : DisconnectWalmart(c, u)
  \/ \E u \in users : ConnectToWalmart(u)
  \/ \E c \in AsyncSlots, u \in users : GetValidAccessToken_Call(c, u)
  \/ \E c \in DOMAIN calls : GetValidAccessToken_Read(c)
  \/ \E c \in DOMAIN calls : GetValidAccessToken_Refresh(c)
  \/ \E c \in DOMAIN calls : GetValidAccessToken_Store(c)

SpecComponent == InitComponent /\ [][NextComponent]_vars

----------------------------------------------------------------------------
(* EncryptionService (src/unnamed/part_001).  A string is the sequence of  *)
(* its code points, a buffer the sequence of its bytes, base64 text the    *)
(* sequence of its ASCII codes.  crypto.subtle's AES is the platform's,    *)
(* not the repository's: its block transformation is represented by a     *)
(* keyed permutation of 16-byte blocks, around which CBC chaining, PKCS#7  *)
(* padding and its validation are computed as AES-CBC computes them.       *)

\* EncryptionService.AES_KEY, "9T6KjI/mL0BJmPlG03PKpyMyiSZ4fMlRBO8m+w6y7ug="
AES_KEY ==
  <<57, 84, 54, 75, 106, 73, 47, 109, 76, 48, 66, 74, 109, 80, 108, 71,
    48, 51, 80, 75, 112, 121, 77, 121, 105, 83, 90, 52, 102, 77, 108, 82,
    66, 79, 56, 109, 43, 119, 54, 121, 55, 117, 103, 61>>

\* the length of the IV, which is AES's block length
BlockSize == 16

RECURSIVE Xor(_, _)
Xor(a, b) ==
  IF a = 0 /\ b = 0 THEN 0
  ELSE ((a + b) % 2) + 2 * Xor(a \div 2, b \div 2)

XorBytes(x, y) == [i \in 1..Len(x) |-> Xor(x[i], y[i])]

\* the base64 alphabet: A-Z a-z 0-9 + /
B64Code(v) ==
  IF v < 26 THEN 65 + v
  ELSE IF v < 52 THEN 97 + (v - 26)
  ELSE IF v < 62 THEN 48 + (v - 52)
  ELSE IF v = 62 THEN 43 ELSE 47

B64Value(c) ==
  IF c \in 65..90 THEN c - 65
  ELSE IF c \in 97..122 THEN c - 97 + 26
  ELSE IF c \in 48..57 THEN c - 48 + 52
  ELSE IF c = 43 THEN 62
  ELSE IF c = 47 THEN 63
  ELSE 0 - 1

\* btoa of the binary string of these bytes
RECURSIVE btoa(_)
btoa(bytes) ==
  IF Len(bytes) = 0 THEN <<>>
  ELSE IF Len(bytes) = 1
    THEN <<B64Code(bytes[1] \div 4), B64Code((bytes[1] % 4) * 16), 61, 61>>
  ELSE IF Len(bytes) = 2
    THEN <<B64Code(bytes[1] \div 4),
           B64Code((bytes[1] % 4) * 16 + bytes[2] \div 16),
           B64Code((bytes[2] % 16) * 4), 61>>
  ELSE <<B64Code(bytes[1] \div 4),
         B64Code((bytes[1] % 4) * 16 + bytes[2] \div 16),
         B64Code((bytes[2] % 16) * 4 + bytes[3] \div 64),
         B64Code(bytes[3] % 64)>> \o btoa(SubSeq(bytes, 4, Len(bytes)))

\* sextets to bytes; bits left over are dropped
RECURSIVE atob_bytes(_)
atob_bytes(v) ==
  IF Len(v) <= 1 THEN <<>>
  ELSE IF Len(v) = 2 THEN <<v[1] * 4 + v[2] \div 16>>
  ELSE IF Len(v) = 3
    THEN <<v[1] * 4 + v[2] \div 16, (v[2] % 16) * 16 + v[3] \div 4>>
  ELSE <<v[1] * 4 + v[2] \div 16, (v[2] % 16) * 16 + v[3] \div 4,
         (v[3] % 4) * 64 + v[4]>> \o atob_bytes(SubSeq(v, 5, Len(v)))

IsAsciiWhitespace(c) == c \in {9, 10, 12, 13, 32}

\* atob: white space is dropped, one or two closing = of a text whose length
\* is a multiple of 4 are dropped, and a text of length 4k + 1 or with a
\* character outside the alphabet throws InvalidCharacterError
atob(text) ==
  LET t == SelectSeq(text, LAMBDA c : ~IsAsciiWhitespace(c))
      n == Len(t)
      s == IF n > 0 /\ n % 4 = 0 /\ t[n] = 61
             THEN IF t[n - 1] = 61 THEN SubSeq(t, 1, n - 2) ELSE SubSeq(t, 1, n - 1)
             ELSE t
  IN  IF Len(s) % 4 = 1 \/ \E i \in 1..Len(s) : B64Value(s[i]) < 0
        THEN [error |-> "InvalidCharacterError", data |-> <<>>]
        ELSE [error |-> "none",
              data |-> atob_bytes([i \in 1..Len(s) |-> B64Value(s[i])])]

\* atob, then charCodeAt of every character
base64ToArrayBuffer(base64) == atob(base64)

\* String.fromCharCode of every byte, then btoa
arrayBufferToBase64(buffer) == btoa(buffer)

\* ArrayBuffer.prototype.slice(begin, end)
slice(buffer, begin, end) ==
  SubSeq(buffer, begin + 1, IF end < Len(buffer) THEN end ELSE Len(buffer))

\* the UTF-8 bytes of one code point (a lone surrogate is written as U+FFFD)
Utf8Bytes(c) ==
  LET cp == IF c \in 55296..57343 THEN 65533 ELSE c
  IN  IF cp < 128 THEN <<cp>>
      ELSE IF cp < 2048 THEN <<192 + cp \div 64, 128 + (cp % 64)>>
      ELSE IF cp < 65536
        THEN <<224 + cp \div 4096, 128 + ((cp \div 64) % 64), 128 + (cp % 64)>>
      ELSE <<240 + cp \div 262144, 128 + ((cp \div 4096) % 64),
             128 + ((cp \div 64) % 64), 128 + (cp % 64)>>

\* new TextEncoder().encode(str)
RECURSIVE TextEncoder_encode(_)
TextEncoder_encode(str) ==
  IF str = <<>> THEN <<>>
  ELSE Utf8Bytes(Head(str)) \o TextEncoder_encode(Tail(str))

\* UTF-8 decoding that replaces what is ill-formed by U+FFFD
RECURSIVE Utf8Decode(_)
Utf8Decode(bytes) ==
  IF bytes = <<>> THEN <<>>
  ELSE LET b == bytes[1]
           n == IF b \in 194..223 THEN 1
                ELSE IF b \in 224..239 THEN 2
                ELSE IF b \in 240..244 THEN 3 ELSE 0
           lead == IF n = 1 THEN b - 192 ELSE IF n = 2 THEN b - 224 ELSE b - 240
           wellFormed == /\ n > 0 /\ Len(bytes) > n
                         /\ \A i \in 2..(n + 1) : bytes[i] \in 128..191
           cp == IF n = 1 THEN lead * 64 + (bytes[2] - 128)
                 ELSE IF n = 2
                   THEN lead * 4096 + (bytes[2] - 128) * 64 + (bytes[3] - 128)
                 ELSE lead * 262144 + (bytes[2] - 128) * 4096
                        + (bytes[3] - 128) * 64 + (bytes[4] - 128)
           least == IF n = 1 THEN 128 ELSE IF n = 2 THEN 2048 ELSE 65536
       IN  IF b < 128 THEN <<b>> \o Utf8Decode(Tail(bytes))
           ELSE IF wellFormed /\ cp >= least /\ cp <= 1114111
                   /\ cp \notin 55296..57343
             THEN <<cp>> \o Utf8Decode(SubSeq(bytes, n + 2, Len(bytes)))
           ELSE <<65533>> \o Utf8Decode(Tail(bytes))

\* new TextDecoder().decode(buffer): not fatal, and a leading byte order
\* mark is dropped
TextDecoder_decode(bytes) ==
  IF Len(bytes) >= 3 /\ SubSeq(bytes, 1, 3) = <<239, 187, 191>>
    THEN Utf8Decode(SubSeq(bytes, 4, Len(bytes)))
    ELSE Utf8Decode(bytes)

\* crypto.subtle.importKey('raw', key, {name: 'AES-CBC'}, ...)
subtle_importKey(keyData) ==
  IF Len(keyData) \in {16, 24, 32}
    THEN [error |-> "none", key |-> keyData]
    ELSE [error |-> "DataError", key |-> <<>>]

\* the keyed permutation of blocks standing for AES, and its inverse
Rot(i) == (i % BlockSize) + 1
RotInv(j) == ((j + BlockSize - 2) % BlockSize) + 1

AES_encryptBlock(key, b) ==
  [i \in 1..BlockSize |->
     (7 * b[Rot(i)] + key[i] + key[Len(key) + 1 - i]) % 256]

AES_decryptBlock(key, c) ==
  [j \in 1..BlockSize |->
     LET i == RotInv(j)
     IN  ((c[i] + 512 - key[i] - key[Len(key) + 1 - i]) * 183) % 256]

PKCS7_pad(data) ==
  LET p == BlockSize - (Len(data) % BlockSize)
  IN  data \o [i \in 1..p |-> p]

PKCS7_valid(padded) ==
  LET n == Len(padded)
  IN  /\ n > 0
      /\ padded[n] \in 1..BlockSize
      /\ \A i \in (n - padded[n] + 1)..n : padded[i] = padded[n]

RECURSIVE CBC_encrypt(_, _, _)
CBC_encrypt(key, prev, data) ==
  IF data = <<>> THEN <<>>
  ELSE LET c == AES_encryptBlock(key, XorBytes(SubSeq(data, 1, BlockSize), prev))
       IN  c \o CBC_encrypt(key, c, SubSeq(data, BlockSize + 1, Len(data)))

RECURSIVE CBC_decrypt(_, _, _)
CBC_decrypt(key, prev, cipher) ==
  IF cipher = <<>> THEN <<>>
  ELSE LET c == SubSeq(cipher, 1, BlockSize)
       IN  XorBytes(AES_decryptBlock(key, c), prev)
             \o CBC_decrypt(key, c, SubSeq(cipher, BlockSize + 1, Len(cipher)))

\* crypto.subtle.encrypt({name: 'AES-CBC', iv}, cryptoKey, data)
subtle_encrypt(key, iv, data) ==
  IF Len(iv) # BlockSize
    THEN [error |-> "OperationError", data |-> <<>>]
    ELSE [error |-> "none", data |-> CBC_encrypt(key, iv, PKCS7_pad(data))]

\* a decrypt that strips the padding its last byte announces, unvalidated
subtle_decrypt_unvalidated(key, iv, cipher) ==
  IF Len(iv) # BlockSize \/ Len(cipher) = 0 \/ Len(cipher) % BlockSize # 0
    THEN [error |-> "OperationError", data |-> <<>>]
    ELSE LET padded == CBC_decrypt(key, iv, cipher)
             p == padded[Len(padded)] % (BlockSize + 1)
         IN  [error |-> "none", data |-> SubSeq(padded, 1, Len(padded) - p)]

\* crypto.subtle.decrypt({name: 'AES-CBC', iv}, cryptoKey, cipher)
subtle_decrypt(key, iv, cipher) ==
  IF Len(iv) # BlockSize \/ Len(cipher) = 0 \/ Len(cipher) % BlockSize # 0
    THEN [error |-> "OperationError", data |-> <<>>]
    ELSE LET padded == CBC_decrypt(key, iv, cipher)
         IN  IF ~PKCS7_valid(padded)
               THEN [error |-> "OperationError", data |-> <<>>]
               ELSE [error |-> "none",
                     data |-> SubSeq(padded, 1, Len(padded) - padded[Len(padded)])]

\* encryptToken(token), iv being what crypto.getRandomValues yields
encryptToken(token, iv) ==
  LET key == base64ToArrayBuffer(AES_KEY)
      cryptoKey == subtle_importKey(key.data)
      data == TextEncoder_encode(token)
      encrypted == subtle_encrypt(cryptoKey.key, iv, data)
      combined == iv \o encrypted.data
  IN  IF key.error # "none" \/ cryptoKey.error # "none" \/ encrypted.error # "none"
        THEN [error |-> "Failed to encrypt token", data |-> <<>>]
        ELSE [error |-> "none", data |-> arrayBufferToBase64(combined)]

\* decryptToken taking a 12-byte IV off the blob
decryptToken_iv12(encryptedToken) ==
  LET key == base64ToArrayBuffer(AES_KEY)
      fullCipher == base64ToArrayBuffer(encryptedToken)
      iv == slice(fullCipher.data, 0, 12)
      cipher == slice(fullCipher.data, 12, Len(fullCipher.data))
      cryptoKey == subtle_importKey(key.data)
      decrypted == subtle_decrypt(cryptoKey.key, iv, cipher)
  IN  IF \/ key.error # "none" \/ fullCipher.error # "none"
         \/ cryptoKey.error # "none" \/ decrypted.error # "none"
        THEN [error |-> "Failed to decrypt token", data |-> <<>>]
        ELSE [error |-> "none", data |-> TextDecoder_decode(decrypted.data)]

\* decryptToken(encryptedToken): whatever is thrown inside is caught and
\* 'Failed to decrypt token' thrown in its place
decryptToken(encryptedToken) ==
  LET key == base64ToArrayBuffer(AES_KEY)
      fullCipher == base64ToArrayBuffer(encryptedToken)
      iv == slice(fullCipher.data, 0, 16)
      cipher == slice(fullCipher.data, 16, Len(fullCipher.data))
      cryptoKey == subtle_importKey(key.data)
      decrypted == subtle_decrypt(cryptoKey.key, iv, cipher)
  IN  IF \/ key.error # "none" \/ fullCipher.error # "none"
         \/ cryptoKey.error # "none" \/ decrypted.error # "none"
        THEN [error |-> "Failed to decrypt token", data |-> <<>>]
        ELSE [error |-> "none", data |-> TextDecoder_decode(decrypted.data)]

\* the tokens encrypted: printable strings of 0 to 17 characters, of one to
\* four UTF-8 bytes each, filling less than a block, exactly one, and more
Letters(n) == [i \in 1..n |-> 64 + i]

Plaintexts ==
  {<<>>, <<84, 49>>, <<233, 8364, 128273>>,
   Letters(15), Letters(16), Letters(16) \o <<8364>>}

\* values of crypto.getRandomValues(new Uint8Array(16))
IVs ==
  {[i \in 1..BlockSize |-> 0], [i \in 1..BlockSize |-> 255],
   [i \in 1..BlockSize |-> (37 * i) % 256]}

GenuineBlobs == {encryptToken(x, iv).data : x \in Plaintexts, iv \in IVs}

\* blobs that are not encryptToken's: with a character outside the
\* alphabet, of an impossible length, cut to 6 bytes, cut to the IV alone,
\* cut within a block, without their last block, with the last byte or the
\* first byte of the IV changed
Damaged(blob) ==
  LET bytes == atob(blob).data
      n == Len(bytes)
  IN  {<<33>> \o Tail(blob),
       blob \o <<65>>,
       SubSeq(blob, 1, 8),
       btoa(SubSeq(bytes, 1, BlockSize)),
       btoa(SubSeq(bytes, 1, n - 1)),
       btoa(SubSeq(bytes, 1, n - BlockSize)),
       btoa([bytes EXCEPT ![n] = Xor(@, 255)]),
       btoa([bytes EXCEPT ![1] = Xor(@, 255)])}

DamagedBlobs == UNION {Damaged(b) : b \in GenuineBlobs} \cup {<<>>}

InitCipher ==
  /\ store = {}
  /\ now = 0
  /\ ticks = 0
  /\ configured = TRUE
  /\ users = {}
  /\ calls = [c \in {} |-> IdleCall]
  /\ comp = InitialComp
  /\ sessionStorage = NULL
  /\ \/ probe \in {[op |-> "cipher", pc |-> "token", token |-> x, iv |-> iv,
                    blob |-> <<>>, genuine |-> TRUE,
                    result |-> [error |-> "none", data |-> <<>>]] :
                     x \in Plaintexts, iv \in IVs}
     \/ probe \in {[op |-> "cipher", pc |-> "blob", token |-> <<>>, iv |-> <<>>,
                    blob |-> b, genuine |-> FALSE,
                    result |-> [error |-> "none", data |-> <<>>]] :
                     b \in DamagedBlobs}

EncryptToken ==
  /\ probe.op = "cipher" /\ probe.pc = "token"
  /\ LET res == encryptToken(probe.token, probe.iv)
     IN  probe' = [probe EXCEPT !.pc = IF res.error = "none" THEN "blob" ELSE "done",
                                !.blob = res.data,
                                !.result = [error |-> res.error, data |-> <<>>]]
  /\ UNCHANGED <<store, now, ticks, configured, users, calls, comp, sessionStorage>>

DecryptToken ==
  /\ probe.op = "cipher" /\ probe.pc = "blob"
  /\ probe' = [probe EXCEPT !.pc = "done", !.result = decryptToken(probe.blob)]
  /\ UNCHANGED <<store, now, ticks, configured, users, calls, comp, sessionStorage>>

NextCipher == EncryptToken \/ DecryptToken

SpecCipher == InitCipher /\ [][NextCipher]_vars

----------------------------------------------------------------------------
(* Properties *)

FinishedGvat(c) == calls[c].kind = "gvat" /\ calls[c].pc = "done"

\* the rows of a user's record in a table
RowsOf(st, u) == {r \in st : r.user_id = u}

\* a call that has just written a record through storeToken
Stored(c) ==
  /\ calls[c].kind \in {"auth", "gvat"} /\ calls[c].pc = "done"
  /\ calls[c].writes = 1

\* the row a call read, and whether it was fresh or expiring (5 minutes) at
\* the moment it was read
ReadRow(c) == TheRow(calls[c].stored)
ReadFresh(c) ==
  calls[c].stored # {} /\ ReadRow(c).expires_at - calls[c].readAt > 5 * 60 * 1000
ReadExpiring(c) ==
  calls[c].stored # {} /\ ReadRow(c).expires_at - calls[c].readAt <= 5 * 60 * 1000

\* C1: getValidAccessToken on a record expiring more than 5 minutes from now
\* returns the stored access token, isRefreshed = false, sends no request to
\* the marketplace and writes nothing to the store.
C1_FreshTokenReturnedUnrefreshed ==
  \A c \in DOMAIN calls :
    (FinishedGvat(c) /\ ReadFresh(c)) =>
      /\ calls[c].outcome = "ok"
      /\ calls[c].token = ReadRow(c).access_token
      /\ calls[c].isRefreshed = FALSE
      /\ calls[c].reqs = 0
      /\ calls[c].writes = 0
      /\ calls[c].stored \subseteq store

\* a record stored from a response with expires_in = 3601 is read in the same
\* instant and its access token returned unrefreshed
C1_Witness ==
  \E c \in DOMAIN calls :
    /\ FinishedGvat(c) /\ ReadFresh(c)
    /\ ReadRow(c).expires_in = 3601
    /\ ReadRow(c).expires_at = calls[c].readAt + 3601 * 1000
    /\ calls[c].outcome = "ok" /\ ~calls[c].isRefreshed
    /\ calls[c].token = ReadRow(c).access_token

\* C2: getValidAccessToken on an expiring record with a refresh token, the
\* marketplace and the store both answering, sends one refresh request, writes
\* the store once and returns the new access token with isRefreshed = true;
\* the store then holds the new token with a later expires_at.
C2_ExpiringTokenIsRefreshed ==
  \A c \in DOMAIN calls :
    (/\ FinishedGvat(c) /\ ReadExpiring(c)
     /\ ReadRow(c).refresh_token # NULL
     /\ calls[c].err \notin {"config", "mkt", "db"}) =>
      /\ calls[c].outcome = "ok"
      /\ calls[c].isRefreshed
      /\ calls[c].reqs = 1
      /\ calls[c].writes = 1
      /\ calls[c].token = TheRow(calls[c].resp).access_token
      /\ \E r \in store :
           /\ r.user_id = calls[c].user
           /\ r.access_token = calls[c].token
           /\ r.expires_at > ReadRow(c).expires_at

\* C3: getValidAccessToken for a user with no record fails with
\* NotConnectedError, sends no request to the marketplace and writes nothing.
C3_NoRecordNotConnected ==
  \A c \in DOMAIN calls :
    (FinishedGvat(c) /\ calls[c].stored = {} /\ calls[c].err # "db") =>
      /\ calls[c].outcome = "NotConnected"
      /\ calls[c].reqs = 0
      /\ calls[c].writes = 0
      /\ ~\E r \in store : r.user_id = calls[c].user

C3_Witness ==
  \E c \in DOMAIN calls :
    /\ FinishedGvat(c) /\ calls[c].outcome = "NotConnected"
    /\ ~\E r \in store : r.user_id = calls[c].user

\* C4: getValidAccessToken on an expiring record with no refresh token fails
\* with NoRefreshTokenError (neither NotConnectedError nor
\* RefreshFailedError), sends no refresh request and writes nothing.
C4_NoRefreshTokenError ==
  \A c \in DOMAIN calls :
    (FinishedGvat(c) /\ ReadExpiring(c) /\ ReadRow(c).refresh_token = NULL) =>
      /\ calls[c].outcome = "NoRefreshToken"
      /\ calls[c].outcome \notin {"NotConnected", "RefreshFailed"}
      /\ calls[c].reqs = 0
      /\ calls[c].writes = 0
      /\ calls[c].stored \subseteq store

C4_Witness ==
  \E c \in DOMAIN calls :
    /\ FinishedGvat(c) /\ ReadExpiring(c) /\ ReadRow(c).refresh_token = NULL
    /\ calls[c].outcome = "NoRefreshToken"

\* C5: when the marketplace rejects the refresh request of
\* getValidAccessToken, the call fails with RefreshFailedError (not
\* NotConnectedError) and has written nothing to the store.
C5_RejectedRefreshFails ==
  \A c \in DOMAIN calls :
    (FinishedGvat(c) /\ calls[c].err = "mkt") =>
      /\ calls[c].outcome = "RefreshFailed"
      /\ calls[c].outcome # "NotConnected"
      /\ calls[c].reqs = 1
      /\ calls[c].writes = 0

\* the refresh was rejected and the record read is still the user's record
C5_Witness ==
  \E c \in DOMAIN calls :
    /\ FinishedGvat(c) /\ calls[c].err = "mkt"
    /\ calls[c].outcome = "RefreshFailed"
    /\ calls[c].stored \subseteq store

\* C6: RefreshFailedError is raised only when the refresh call itself fails;
\* when the refresh succeeded and storeToken failed, the caller gets the
\* store's error.
C6_StoreErrorReachesCaller ==
  \A c \in DOMAIN calls :
    (FinishedGvat(c) /\ calls[c].resp # {} /\ calls[c].err \in {"db", "23505"}) =>
      /\ calls[c].outcome # "RefreshFailed"
      /\ calls[c].outcome = "StoreError"

\* C7: of two getValidAccessToken calls that read the same expiring record
\* and both had the same refresh token exchanged, each writes the store (the
\* later write wins): the one that finishes storeToken first, the store
\* answering, has written its response.
C7_BothRefreshesWrite ==
  \A c1, c2 \in DOMAIN calls :
    (/\ c1 # c2
     /\ FinishedGvat(c1) /\ calls[c1].resp # {} /\ calls[c1].err # "db"
     /\ calls[c2].kind = "gvat" /\ calls[c2].pc = "store"
     /\ calls[c1].user = calls[c2].user
     /\ calls[c1].stored = calls[c2].stored
     /\ calls[c1].sent = calls[c2].sent) =>
      /\ calls[c1].writes = 1
      /\ \E r \in store :
           /\ r.user_id = calls[c1].user
           /\ r.access_token = TheRow(calls[c1].resp).access_token

\* C8: the access_token and refresh_token of every stored record are
\* ciphertext, never the plaintext token the marketplace returned: so it is
\* for the record a storeToken has just written.
C8_StoredTokensAreCiphertext ==
  \A c \in DOMAIN calls :
    Stored(c) =>
      \A r \in RowsOf(store, calls[c].user) :
        /\ ~IsPlaintextToken(r.access_token)
        /\ r.refresh_token # NULL => ~IsPlaintextToken(r.refresh_token)

\* C9: the store holds at most one record per user_id.
C9_OneRecordPerUser ==
  \A r1, r2 \in store : r1.user_id = r2.user_id => r1 = r2

\* two users hold a record each and a further storeToken for one of them has
\* just been answered
C9_Witness ==
  /\ Cardinality(store) = 2
  /\ \E c \in DOMAIN calls :
       /\ calls[c].kind = "auth" /\ calls[c].pc = "done" /\ calls[c].resp # {}
       /\ \E r \in store : r.user_id = calls[c].user

\* C10: storeToken for a user who already has a record, the store answering,
\* succeeds, and the record then carries that call's access token, refresh
\* token and expiry.
C10_StoreTokenReplaces ==
  \A c \in DOMAIN calls :
    (/\ calls[c].kind = "auth" /\ calls[c].pc = "done"
     /\ calls[c].resp # {} /\ calls[c].err # "db") =>
      /\ calls[c].outcome = "ok"
      /\ calls[c].writes = 1
      /\ \E r \in store :
           /\ r.user_id = calls[c].user
           /\ r.access_token = TheRow(calls[c].resp).access_token
           /\ r.refresh_token = TheRow(calls[c].resp).refresh_token
           /\ r.expires_at = now + TheRow(calls[c].resp).expires_in * 1000

\* C11: in every stored record expires_at is the time of the write that
\* produced it plus expires_in seconds, whatever expires_at the writer
\* supplied; the record a storeToken has just written was written now.
C11_ExpiresAtIsWriteTimePlusExpiresIn ==
  /\ \A r \in store :
       /\ r.expires_at = r.updated_at + r.expires_in * 1000
       /\ \A supplied \in {NULL, 1, r.expires_at + 1} :
            calculate_expires_at([r EXCEPT !.expires_at = supplied],
                                 r.updated_at).expires_at = r.expires_at
  /\ \A c \in DOMAIN calls :
       Stored(c) =>
         \E r \in store :
           /\ r.user_id = calls[c].user
           /\ r.updated_at = now
           /\ r.expires_at = now + TheRow(calls[c].resp).expires_in * 1000

\* a record written after the clock has advanced, from a response with
\* expires_in = 3601
C11_Witness ==
  \E c \in DOMAIN calls :
    /\ Stored(c) /\ now > 0
    /\ TheRow(calls[c].resp).expires_in = 3601
    /\ \E r \in store : r.user_id = calls[c].user /\ r.expires_at = now + 3601 * 1000

\* C12: isTokenExpiring(record, bufferMinutes) is true exactly when
\* expires_at - now <= bufferMinutes * 60 seconds: true at now + 5 min for
\* buffer 5, false at now + 5 min + 1 s, true for every expires_at in the past.
C12_IsTokenExpiringBoundary ==
  (probe.op = "isTokenExpiring" /\ probe.pc = "done") =>
    LET remaining == probe.expires_at - now
    IN  /\ probe.result <=> (remaining <= probe.bufferMinutes * 60 * 1000)
        /\ (probe.bufferMinutes = 5 /\ remaining = 5 * 60 * 1000) => probe.result
        /\ (probe.bufferMinutes = 5 /\ remaining = 5 * 60 * 1000 + 1000)
             => ~probe.result
        /\ remaining < 0 => probe.result

\* the record expires exactly 5 minutes from now and the buffer is 5
C12_Witness ==
  /\ probe.op = "isTokenExpiring" /\ probe.pc = "done"
  /\ probe.bufferMinutes = 5
  /\ probe.expires_at = now + 5 * 60 * 1000
  /\ probe.result = TRUE

FinishedStatus(c) == calls[c].kind = "status" /\ calls[c].pc = "done"

\* C13: getConnectionStatus never changes the store and never throws: with a
\* record found, no row, or a store failure it returns a value; a store
\* failure is reported as isConnected = false, and otherwise isConnected says
\* whether the user has a record, the one returned.
C13_ConnectionStatusAlwaysReturns ==
  \A c \in DOMAIN calls :
    FinishedStatus(c) =>
      /\ calls[c].outcome = "ok"
      /\ calls[c].writes = 0
      /\ calls[c].err = "db" => ~calls[c].isConnected
      /\ calls[c].err # "db" =>
           (calls[c].isConnected <=> \E r \in store : r.user_id = calls[c].user)
      /\ calls[c].isConnected =>
           calls[c].stored = {r \in store : r.user_id = calls[c].user}

\* the store fails while the user holds a record: isConnected = false
C13_Witness ==
  \E c \in DOMAIN calls :
    /\ FinishedStatus(c) /\ calls[c].err = "db"
    /\ calls[c].outcome = "ok" /\ ~calls[c].isConnected
    /\ \E r \in store : r.user_id = calls[c].user

\* the step in which call c finishes
Finishes(c) == calls[c].pc # "done" /\ calls'[c].pc = "done"

\* C15: after deleteToken(userId), the store answering, getStoredToken(userId)
\* returns absent; on a user with no record deleteToken completes without
\* error and leaves the store unchanged; records of other users are never
\* affected.
C15_DeleteTokenIdempotent ==
  [][\A c \in DOMAIN calls :
       (Finishes(c) /\ calls'[c].kind = "delete") =>
         LET u == calls'[c].user
         IN  /\ calls'[c].err # "db" =>
                  /\ calls'[c].outcome = "ok"
                  /\ getStoredToken(store', u, TRUE) = [error |-> "none", data |-> {}]
             /\ calls'[c].err = "db" => store' = store
             /\ RowsOf(store, u) = {} => store' = store
             /\ \A v \in users \ {u} : RowsOf(store', v) = RowsOf(store, v)]_vars

\* a user's record has just been deleted and the other user's record is there
C15_Witness ==
  \E c \in DOMAIN calls :
    /\ calls[c].kind = "delete" /\ calls[c].pc = "done"
    /\ calls[c].outcome = "ok" /\ calls[c].writes = 1
    /\ RowsOf(store, calls[c].user) = {}
    /\ \E v \in users \ {calls[c].user} : RowsOf(store, v) # {}

\* C16: a record leaves the store only through a deleteToken for its user (or
\* a storeToken that wrote the user's record anew); a getValidAccessToken that
\* fails because the refresh failed or no refresh token is stored leaves the
\* store as it was, and getStoredToken still returns the user's record.
C16_RemovedOnlyByDelete ==
  [][/\ \A r \in store :
          r \notin store' =>
            \E c \in DOMAIN calls :
              /\ Finishes(c) /\ calls'[c].user = r.user_id
              /\ \/ calls'[c].kind = "delete"
                 \/ calls'[c].kind \in {"auth", "gvat"} /\ calls'[c].writes = 1
     /\ \A c \in DOMAIN calls :
          (/\ Finishes(c) /\ calls'[c].kind = "gvat"
           /\ calls'[c].outcome \in {"RefreshFailed", "NoRefreshToken"}) =>
            /\ store' = store
            /\ getStoredToken(store', calls'[c].user, TRUE).data
                 = RowsOf(store, calls'[c].user)]_vars

\* after the clock has advanced, a refresh has failed at the marketplace or
\* for want of configuration and the record read is still the user's record
C16_Witness ==
  \E c \in DOMAIN calls :
    /\ FinishedGvat(c) /\ calls[c].outcome = "RefreshFailed"
    /\ calls[c].err \in {"mkt", "config"} /\ ticks > 0
    /\ calls[c].stored # {}
    /\ calls[c].stored = RowsOf(store, calls[c].user)

\* C18: no automatic retry: an authorization-code exchange or a refresh sends
\* at most one request to the token endpoint, and on a non-success status it
\* fails to its caller with one request sent and nothing written to the store.
C18_NoRetry ==
  \A c \in DOMAIN calls :
    /\ calls[c].reqs <= 1
    /\ (calls[c].pc = "done" /\ calls[c].err = "mkt") =>
         /\ calls[c].reqs = 1
         /\ calls[c].writes = 0
         /\ calls[c].resp = {}
         /\ calls[c].outcome \in {"WalmartApiError", "RefreshFailed"}

\* the exchange was rejected: one request, and the user still has no record
C18_Witness ==
  \E c \in DOMAIN calls :
    /\ calls[c].kind = "auth" /\ calls[c].pc = "done" /\ calls[c].err = "mkt"
    /\ calls[c].outcome = "WalmartApiError" /\ calls[c].reqs = 1
    /\ RowsOf(store, calls[c].user) = {}

\* C20: getStoredToken returns absent (null), not an error, when the store
\* reports no matching row, propagates every other store failure to its
\* caller, and never writes to the store.
C20_GetStoredTokenNullOnNoRow ==
  \A c \in DOMAIN calls :
    (calls[c].kind = "get" /\ calls[c].pc = "done") =>
      /\ calls[c].writes = 0
      /\ IF calls[c].err = "db"
           THEN calls[c].outcome = "StoreError"
           ELSE /\ calls[c].outcome = "ok"
                /\ calls[c].stored = RowsOf(store, calls[c].user)

\* the store answers that no row matches; null is returned
C20_Witness ==
  \E c \in DOMAIN calls :
    /\ calls[c].kind = "get" /\ calls[c].pc = "done"
    /\ calls[c].outcome = "ok" /\ calls[c].stored = {}
    /\ RowsOf(store, calls[c].user) = {}
    /\ store # {}

\* C19: the refresh request of refreshAccessToken carries the partner
\* identifier header exactly when a seller id is known for the record being
\* refreshed.
C19_PartnerHeaderIffSellerKnown ==
  \A c \in DOMAIN calls :
    (calls[c].kind = "gvat" /\ calls[c].reqs = 1) =>
      /\ calls[c].partner # NULL <=> ReadRow(c).seller_id # NULL
      /\ calls[c].partner # NULL => calls[c].partner = ReadRow(c).seller_id

RefreshedFrom(c) ==
  IF calls[c].kind = "gvat" THEN ReadRow(c) ELSE TheRow(calls[c].captured)

Refreshed(c) ==
  /\ calls[c].kind \in {"gvat", "check", "refresh"} /\ calls[c].pc = "done"
  /\ calls[c].outcome = "ok" /\ calls[c].isRefreshed

Connected(st, u, t) == getConnectionStatus(st, u, t, TRUE).isConnected

Classification(st, u, t) ==
  LET status == getConnectionStatus(st, u, t, TRUE)
  IN  IF status.needsRefresh THEN 2 ELSE IF status.isExpiring THEN 1 ELSE 0

\* C21: per user, while the user's record is not written, its classification
\* only moves forward as the clock advances (fresh, expiring-soon,
\* needs-refresh); a user's record becomes fresh only in the step in which a
\* storeToken of a refresh or of an authorization for that user completes; and
\* a connected user becomes disconnected only in the step in which a
\* deleteToken for that user completes.
C21_ClassificationMovesForward ==
  [][\A u \in users :
       /\ (Connected(store, u, now) /\ RowsOf(store', u) = RowsOf(store, u)) =>
            Classification(store', u, now') >= Classification(store, u, now)
       /\ (/\ Connected(store', u, now') /\ Classification(store', u, now') = 0
           /\ ~(Connected(store, u, now) /\ Classification(store, u, now) = 0)) =>
            \E c \in DOMAIN calls :
              /\ Finishes(c) /\ calls'[c].user = u
              /\ calls'[c].kind \in {"auth", "gvat"} /\ calls'[c].writes = 1
       /\ (Connected(store, u, now) /\ ~Connected(store', u, now')) =>
            \E c \in DOMAIN calls :
              /\ Finishes(c) /\ calls'[c].user = u
              /\ calls'[c].kind = "delete"]_vars

\* a record that was fresh when it was written is expiring-soon now, and
\* another that was expiring-soon when written needs a refresh now
C21_Witness ==
  /\ now > 0
  /\ \E r \in store :
       /\ Classification({r}, r.user_id, r.updated_at) = 0
       /\ Classification({r}, r.user_id, now) = 1
  /\ \E r \in store :
       /\ Classification({r}, r.user_id, r.updated_at) = 1
       /\ Classification({r}, r.user_id, now) = 2

\* a getConnectionStatus that has returned isConnected = true
ConnectedStatus(c) ==
  /\ calls[c].kind = "status" /\ calls[c].pc = "done"
  /\ calls[c].isConnected

\* what getValidAccessToken would do with the record the status was computed
\* from, at the same instant
WouldDecide(c) == getValidAccessToken_decide(calls[c].stored, calls[c].readAt)

\* C22 as stated: when getConnectionStatus reports isConnected, needsRefresh
\* implies isExpiring, and needsRefresh is true exactly when
\* getValidAccessToken would attempt a refresh of the record.
C22_NeedsRefreshIffRefreshAttempted ==
  \A c \in DOMAIN calls :
    ConnectedStatus(c) =>
      /\ calls[c].needsRefresh => calls[c].isExpiring
      /\ calls[c].needsRefresh <=> (WouldDecide(c) = "refresh")

\* C22: when getConnectionStatus reports isConnected, isExpiring is the
\* 60-minute and needsRefresh the 5-minute test of the same record, so
\* needsRefresh implies isExpiring; needsRefresh is true exactly when
\* getValidAccessToken would not return the stored access token, and for a
\* record that holds a refresh token exactly when it would attempt a refresh.
C22_NeedsRefreshIffNotReturned ==
  \A c \in DOMAIN calls :
    ConnectedStatus(c) =>
      LET tok == TheRow(calls[c].stored)
      IN  /\ calls[c].isExpiring = isTokenExpiring(tok, 60, calls[c].readAt)
          /\ calls[c].needsRefresh = isTokenExpiring(tok, 5, calls[c].readAt)
          /\ calls[c].needsRefresh => calls[c].isExpiring
          /\ calls[c].needsRefresh <=>
               (WouldDecide(c) \in {"refresh", "NoRefreshToken"})
          /\ tok.refresh_token # NULL =>
               (calls[c].needsRefresh <=> (WouldDecide(c) = "refresh"))

\* the status of an expiring record without a refresh token: needsRefresh is
\* reported, and getValidAccessToken would fail without a refresh request
C22_Witness ==
  \E c \in DOMAIN calls :
    /\ ConnectedStatus(c) /\ calls[c].needsRefresh /\ calls[c].isExpiring
    /\ TheRow(calls[c].stored).refresh_token = NULL
    /\ WouldDecide(c) = "NoRefreshToken"

\* a checkConnectionStatus that has run to its end
FinishedCheck(c) == calls[c].kind = "check" /\ calls[c].pc = "done"

\* C23 as stated: whenever checkConnectionStatus (the first after mount
\* included) finds a stored record with needsRefresh = true and a refresh
\* token, it issues a refresh request and stores the result.
C23_CheckRefreshesAutomatically ==
  \A c \in DOMAIN calls :
    (/\ FinishedCheck(c) /\ configured
     /\ calls[c].needsRefresh /\ calls[c].stored # {}
     /\ TheRow(calls[c].stored).refresh_token # NULL) =>
      /\ calls[c].reqs = 1
      /\ calls[c].resp # {} => calls[c].writes = 1

\* C26 as stated: a user without a record (deleteToken has completed) gets a
\* record again only in the step in which the storeToken of an
\* authorization-code exchange for that user completes; the storeToken of a
\* refresh that was in flight when the delete ran does not re-create it.
C26_DeletedUntilReauthorized ==
  [][\A u \in users :
       (RowsOf(store, u) = {} /\ RowsOf(store', u) # {}) =>
         \E c \in DOMAIN calls :
           /\ Finishes(c) /\ calls'[c].user = u
           /\ calls'[c].kind = "auth" /\ calls'[c].writes = 1]_vars

\* C27 as stated: after a successful refresh whose response carries no
\* refresh_token, the record written still holds the refresh token of the
\* record that was refreshed.
C27_RefreshTokenKeptWhenOmitted ==
  \A c \in DOMAIN calls :
    (Refreshed(c) /\ TheRow(calls[c].resp).refresh_token = NULL) =>
      \A r \in RowsOf(store, calls[c].user) :
        r.refresh_token = RefreshedFrom(c).refresh_token

\* C28 as stated: handleAuthorizationCallback sends the exchange request
\* (and goes on to the store write) only when its state argument is the
\* string connectToWalmart saved in sessionStorage; with a missing or
\* different state there is no exchange request and no store write.
C28_CallbackChecksState ==
  \A c \in DOMAIN calls :
    (/\ calls[c].kind = "callback"
     /\ (calls[c].state = NULL \/ calls[c].state # sessionStorage)) =>
      /\ calls[c].reqs = 0
      /\ calls[c].writes = 0

\* C29 as stated: once the component is connected with the token of the
\* user's stored record (handleAuthorizationCallback has stored it), the
\* completion of a checkConnectionStatus that was started beside it leaves
\* the component connected with that token, whenever its read was made.
C29_LateCheckKeepsConnected ==
  [][\A c \in DOMAIN calls :
       (/\ calls[c].kind = "check" /\ calls[c].pc = "status"
        /\ calls'[c].pc # "status"
        /\ comp.isConnected /\ comp.token # {}
        /\ comp.token \subseteq store) =>
         /\ comp'.isConnected
         /\ comp'.token = comp.token]_vars

\* C30: in every reachable state of the component, connectionStatus.isConnected
\* implies that the component's token is not null (the state updates of one
\* handler continuation are applied together).
C30_ConnectedHasToken ==
  comp.isConnected => comp.token # {}

\* the component is connected and holds its token while it shows the
\* marketplace's rejection, in a session that began with connectToWalmart
C30_Witness ==
  /\ comp.isConnected /\ comp.token # {}
  /\ comp.error = "mkt" /\ ~comp.loading
  /\ sessionStorage # NULL

\* a blob that encryptToken produced in this run has been decrypted
RoundTripDone ==
  probe.op = "cipher" /\ probe.pc = "done" /\ probe.genuine

\* C24: cipher round trip: for every token of the bounded set and every
\* initialization vector drawn, decryptToken(encryptToken(x)) succeeds and
\* returns x.
C24_CipherRoundTrip ==
  RoundTripDone =>
    /\ probe.result.error = "none"
    /\ probe.result.data = probe.token

\* a token with characters of several bytes, longer than a block, encrypted
\* under an IV that is not all zeros, has come back; its blob is not the
\* base64 of its bytes
C24_Witness ==
  /\ RoundTripDone
  /\ Len(TextEncoder_encode(probe.token)) > BlockSize
  /\ \E i \in 1..Len(probe.token) : probe.token[i] > 127
  /\ \E i \in 1..BlockSize : probe.iv[i] # 0
  /\ probe.blob # btoa(TextEncoder_encode(probe.token))
  /\ probe.result.data = probe.token

\* the three kinds of blob decryptToken must reject
NotBase64(blob) == atob(blob).error # "none"

DecodesShort(blob) ==
  atob(blob).error = "none" /\ Len(atob(blob).data) < BlockSize

PaddingInvalid(blob) ==
  LET bytes == atob(blob).data
      iv == SubSeq(bytes, 1, BlockSize)
      cipher == SubSeq(bytes, BlockSize + 1, Len(bytes))
  IN  /\ Len(cipher) > 0 /\ Len(cipher) % BlockSize = 0
      /\ ~PKCS7_valid(CBC_decrypt(atob(AES_KEY).data, iv, cipher))

DoesNotValidate(blob) ==
  /\ atob(blob).error = "none" /\ Len(atob(blob).data) >= BlockSize
  /\ LET n == Len(atob(blob).data) - BlockSize
     IN  n = 0 \/ n % BlockSize # 0 \/ PaddingInvalid(blob)

\* C25: decryptToken fails with 'Failed to decrypt token', and returns no
\* plaintext, for every blob that is not valid base64, that decodes to fewer
\* than 16 bytes, or whose ciphertext does not validate under the fixed key
\* and the blob's IV.
C25_DecryptRejectsMalformed ==
  (/\ probe.op = "cipher" /\ probe.pc = "done"
   /\ \/ NotBase64(probe.blob)
      \/ DecodesShort(probe.blob)
      \/ DoesNotValidate(probe.blob)) =>
    /\ probe.result.error = "Failed to decrypt token"
    /\ probe.result.data = <<>>

\* a blob of an IV and whole blocks whose padding is not valid has been
\* rejected
C25_Witness ==
  /\ probe.op = "cipher" /\ probe.pc = "done" /\ ~probe.genuine
  /\ atob(probe.blob).error = "none"
  /\ PaddingInvalid(probe.blob)
  /\ probe.result.error = "Failed to decrypt token"

====
